---- MODULE Spec2Model ----
(***************************************************************************)
(* JUNEbug: the translation between a disease document (trajectories,      *)
(* symptom_tags, settings) and the node graph of the editor.               *)
(*                                                                         *)
(*   updateGraph  (src/src/yamlLoader.py)  document -> graph               *)
(*   saveConfig   (src/src/yamlLoader.py)  graph -> document               *)
(*   loadConfig   (src/src/yamlLoader.py)  file -> panel, graph, log       *)
(*   NodeGraphWidget (src/src/graph.py)    context menu, signal handlers   *)
(*                                         and the callbacks they schedule *)
(*                                                                         *)
(* The host graph widget (NodeGraphQt) is not part of the repository; it   *)
(* is taken as the container the code uses it as: it creates typed nodes,  *)
(* stores the name and the properties it is given, connects ports and      *)
(* lists nodes and connections in creation order.                          *)
(*                                                                         *)
(* Representation.                                                         *)
(*  - A Python value is a record [t, n, s]: t is "int", "float" or "str";  *)
(*    n is the number in units of 1/Scale; s is the string.                *)
(*  - A text (what str() returns, what a node property holds) is a record  *)
(*    [num, dot, n, w]: a numeral with or without a ".", or a word.        *)
(*  - A dict is the sequence of its <<key, value>> items in insertion      *)
(*    order.                                                               *)
(*  - A node name is the sequence of its space-separated tokens:           *)
(*    "mild" is <<"mild">>, "mild 2" is <<"mild", "2">>.                   *)
(*  - A description is the sequence of the tags that " => " joins.         *)
(***************************************************************************)
EXTENDS Integers, Sequences, FiniteSets, TLC

\* ------------------------------------------------------------------ bounds

\* stages per trajectory of a user document
MaxLen == 3

\* trajectories per user document
MaxTraj == 2

\* nodes the user adds from the context menu to a session
MaxManual == 2

\* nodes of a session in which the user also connects ports
MaxNodes == 5

\* ------------------------------------------------------- values and texts

\* units per 1: the model's numbers carry eight decimals
Scale == 10 ^ 8

PyInt(k) == [t |-> "int", n |-> k * Scale, s |-> ""]

\* a float given in units of 1/Scale
PyFloat(u) == [t |-> "float", n |-> u, s |-> ""]

PyStr(w) == [t |-> "str", n |-> 0, s |-> w]

Numeral(dot, n) == [num |-> TRUE, dot |-> dot, n |-> n, w |-> ""]

Word(w) == [num |-> FALSE, dot |-> FALSE, n |-> 0, w |-> w]

\* str(v): an int prints without ".", a float with one, a string as itself
Str(v) ==
  IF v.t = "str" THEN Word(v.s) ELSE Numeral(v.t = "float", v.n)

\* repr(v) as it appears in str(sorted(comp.items())): a string is quoted
Repr(v) == [text |-> Str(v), quoted |-> v.t = "str"]

Max(S) == CHOOSE x \in S : \A y \in S : y <= x

Range(f) == {f[i] : i \in DOMAIN f}

\* dict.get(k, default) on a dict held as a sequence of items
Get(d, k, default) ==
  LET idx == {i \in 1..Len(d) : d[i][1] = k}
  IN IF idx = {} THEN default ELSE d[Max(idx)][2]

\* ------------------------------------------------------------- node types

DefaultLowestStage == "symptoms.DefaultLowestStage"

TransitionNode == "symptoms.TransitionNode"

TerminalStage == "symptoms.TerminalStage"

UniversalTimeNode == "transitions.UniversalTimeNode"

\* STAGE_TYPES without "none"; the order updateGraph walks them in
categories ==
  << "stay_at_home_stage", "fatality_stage", "recovered_stage",
     "hospitalised_stage", "intensive_care_stage",
     "severe_symptoms_stay_at_home_stage" >>

\* x.type_.startswith("symptoms.")
IsSymptom(node) ==
  node.type_ \in {DefaultLowestStage, TransitionNode, TerminalStage}

StageProps == [stage_type |-> Word("none"), tag |-> Numeral(FALSE, 0)]

\* the node as its class's __init__ leaves it
NewNode(type) ==
  IF type = DefaultLowestStage
    THEN [type_ |-> type, name |-> <<"exposed">>, props |-> StageProps]
  ELSE IF type = TransitionNode
    THEN [type_ |-> type, name |-> <<"mild">>, props |-> StageProps]
  ELSE IF type = TerminalStage
    THEN [type_ |-> type, name |-> <<"recovered">>, props |-> StageProps]
  ELSE [type_ |-> type, name |-> <<"Time", "Distribution">>,
        props |-> [type |-> Word("constant"),
                   Val |-> Numeral(TRUE, 0),
                   scale |-> Numeral(TRUE, Scale),
                   a |-> Numeral(TRUE, 0), b |-> Numeral(TRUE, 0),
                   c |-> Numeral(TRUE, 0), s |-> Numeral(TRUE, 0)]]

\* node.set_property(prop, text); an unknown property raises
HasProperty(node, prop) == prop \in DOMAIN node.props

SetProperty(node, prop, text) ==
  [node EXCEPT !.props = [node.props EXCEPT ![prop] = text]]

\* node.set_name(name): the host stores the name it is given
SetName(node, name) == [node EXCEPT !.name = name]

\* the nodes the ports of n's output 0 are connected to, in connection order
ConnectedOut(conns, n) ==
  LET sel == SelectSeq(conns, LAMBDA c : c[1] = n)
  IN [i \in 1..Len(sel) |-> sel[i][2]]

ConnectedIn(conns, n) ==
  LET sel == SelectSeq(conns, LAMBDA c : c[2] = n)
  IN [i \in 1..Len(sel) |-> sel[i][1]]

\* ------------------------------------------------------------ updateGraph

\* tag_vals.get(tag, 0): the last symptom_tags entry of that name wins
TagVal(disease, tag) ==
  LET tv == disease.symptom_tags
      idx == {i \in 1..Len(tv) : tv[i].name = tag}
  IN IF idx = {} THEN PyInt(0) ELSE tv[Max(idx)].value

\* sets.get(cat, [])
CatList(sets, cat) == IF cat \in DOMAIN sets THEN sets[cat] ELSE <<>>

\* c_map: categories are walked in order, a later category overwrites
InCMap(sets, tag) ==
  \E i \in 1..Len(categories) : tag \in Range(CatList(sets, categories[i]))

CMap(sets, tag) ==
  categories[Max({i \in 1..Len(categories) :
                    tag \in Range(CatList(sets, categories[i]))})]

\* topology analysis: every tag, the tags that are a source, a target
AllTags(trajectories) ==
  UNION {{trajectories[j].stages[i].symptom_tag :
            i \in 1..Len(trajectories[j].stages)} :
         j \in 1..Len(trajectories)}

IsS(trajectories) ==
  UNION {{trajectories[j].stages[i].symptom_tag :
            i \in 1..Len(trajectories[j].stages) - 1} :
         j \in 1..Len(trajectories)}

IsT(trajectories) ==
  UNION {{trajectories[j].stages[i].symptom_tag :
            i \in 2..Len(trajectories[j].stages)} :
         j \in 1..Len(trajectories)}

\* the type of a tag's master node
MasterType(trajectories, tag) ==
  IF tag \in IsS(trajectories) /\ tag \in IsT(trajectories)
    THEN TransitionNode
  ELSE IF tag \in IsS(trajectories) THEN DefaultLowestStage
  ELSE TerminalStage

\* what s.get("symptom_tag") yields for an entry without the key
None == "None"

\* the host during one build: the kind of property assignment it rejects
\* (<<>>: it rejects none) and whether its set_name rejects None
Compliant == [fault |-> <<>>, strict |-> FALSE]

\* stage_type, when the tag is in c_map
WithStageType(node, disease, tag) ==
  IF InCMap(disease.settings, tag)
    THEN SetProperty(node, "stage_type", Word(CMap(disease.settings, tag)))
    ELSE node

\* stage_type (when the tag is in c_map) and tag, as updateGraph sets them
\* on a master node and on a numbered copy
WithStageProps(node, disease, tag) ==
  SetProperty(WithStageType(node, disease, tag), "tag",
              Str(TagVal(disease, tag)))

\* the same two assignments under a host that may reject one: the node as
\* far as it got and the exception that leaves the build; only the master's
\* tag is assigned inside try/except
StageNode(node, disease, tag, kind, host) ==
  IF host.fault = <<kind, "stage_type">> /\ InCMap(disease.settings, tag)
    THEN [node |-> node, err |-> "NodePropertyError"]
  ELSE IF host.fault = <<kind, "tag">>
    THEN [node |-> WithStageType(node, disease, tag),
          err |-> IF kind = "master" THEN "" ELSE "NodePropertyError"]
  ELSE [node |-> WithStageProps(node, disease, tag), err |-> ""]

\* the words of a tag, as name().split(" ") separates them
Words(tag) == IF tag = "mild case" THEN <<"mild", "case">> ELSE <<tag>>

\* create_node, set_name(tag), stage_type, tag: the master node of a tag
MasterNode(disease, tag, host) ==
  LET n == NewNode(MasterType(disease.trajectories, tag))
  IN IF tag = None /\ host.strict
       THEN [node |-> n, err |-> "TypeError"]
       ELSE StageNode(SetName(n, Words(tag)), disease, tag, "master", host)

\* a numbered copy that is interior wherever it stands
NumberedTypeInterior(st, i) == TransitionNode

\* the numbered copy of the count-th occurrence of tag, at position i of st
NumberedType(st, i) ==
  IF i < Len(st) THEN TransitionNode ELSE TerminalStage

\* f"{tag} {path_tag_counts[tag]}"
NumberedName(tag, count) == Append(Words(tag), ToString(count))

NumberedNode(disease, st, i, tag, count, host) ==
  StageNode(SetName(NewNode(NumberedType(st, i)), NumberedName(tag, count)),
            disease, tag, "copy", host)

\* every key taken as the name of the property
PropOfKeyVerbatim(k) == k

\* createTimeNode: type, then every other item; value and loc go to Val; a
\* property the node does not have raises, and the except clause drops it
PropOfKey(k) == IF k \in {"value", "loc"} THEN "Val" ELSE k

RECURSIVE SetTimeProps(_, _, _)
SetTimeProps(node, comp, i) ==
  IF i > Len(comp) THEN node
  ELSE LET k == comp[i][1]
           prop == PropOfKey(k)
       IN IF k # "type" /\ HasProperty(node, prop)
            THEN SetTimeProps(SetProperty(node, prop, Str(comp[i][2])),
                              comp, i + 1)
            ELSE SetTimeProps(node, comp, i + 1)

\* the assignment of type is outside the try, the others are inside
createTimeNode(comp, host) ==
  LET n == NewNode(UniversalTimeNode)
      typed == SetProperty(n, "type", Str(Get(comp, "type", PyStr("constant"))))
  IN IF host.fault = <<"time", "type">>
       THEN [node |-> n, err |-> "NodePropertyError"]
     ELSE IF host.fault = <<"time", "param">>
       THEN [node |-> typed, err |-> ""]
     ELSE [node |-> SetTimeProps(typed, comp, 1), err |-> ""]

\* str(sorted(comp.items())): two dicts give the same string exactly when
\* they have the same set of (key, repr(value)) items
ParamsKey(comp) == {<<comp[i][1], Repr(comp[i][2])>> : i \in 1..Len(comp)}

CacheKey(prevName, currName, comp) == <<prevName, currName, ParamsKey(comp)>>

\* a link that never looks into the cache
LinkUncached(g, prev, curr, comp) ==
  LET tn == Len(g.nodes) + 1
  IN [g EXCEPT !.nodes = Append(@, createTimeNode(comp, g.host).node),
               !.conns = @ \o << <<prev, tn>>, <<tn, curr>> >>]

\* the link prev -> time node -> curr, unless the cache has the key
Link(g, prev, curr, comp) ==
  LET key == CacheKey(g.nodes[prev].name, g.nodes[curr].name, comp)
      tn == Len(g.nodes) + 1
  IN IF key \in g.dist_cache THEN g
     ELSE LET made == createTimeNode(comp, g.host)
          IN IF made.err # ""
               THEN [g EXCEPT !.nodes = Append(@, made.node),
                              !.err = made.err]
               ELSE [g EXCEPT !.nodes = Append(@, made.node),
                              !.conns = @ \o << <<prev, tn>>, <<tn, curr>> >>,
                              !.dist_cache = @ \cup {key}]

\* one trajectory: stage i of st, after prev (0: None), with the counts so
\* far; an exception ends the build where it is raised
RECURSIVE DrawStages(_, _, _, _, _, _)
DrawStages(g, disease, st, i, prev, counts) ==
  IF i > Len(st) \/ g.err # "" THEN g
  ELSE
    LET tag == st[i].symptom_tag
        count == counts[tag] + 1
        first == count = 1
        made == NumberedNode(disease, st, i, tag, count, g.host)
        g1 == IF first THEN g
              ELSE [g EXCEPT !.nodes = Append(@, made.node),
                             !.err = made.err]
        curr == IF first THEN g.master_nodes[tag] ELSE Len(g1.nodes)
        g2 == IF prev # 0 /\ g1.err = ""
                THEN Link(g1, prev, curr, st[i - 1].completion_time)
                ELSE g1
    IN DrawStages(g2, disease, st, i + 1, curr,
                  [counts EXCEPT ![tag] = count])

RECURSIVE DrawPaths(_, _, _)
DrawPaths(g, disease, j) ==
  IF j > Len(disease.trajectories) \/ g.err # "" THEN g
  ELSE DrawPaths(
         DrawStages(g, disease, disease.trajectories[j].stages, 1, 0,
                    [tag \in AllTags(disease.trajectories) |-> 0]),
         disease, j + 1)

\* for tag in all_tags: the master nodes, in the order the set yields them
RECURSIVE DrawMasters(_, _, _, _)
DrawMasters(g, disease, order, i) ==
  IF i > Len(order) \/ g.err # "" THEN g
  ELSE LET made == MasterNode(disease, order[i], g.host)
       IN DrawMasters(
            [g EXCEPT !.nodes = Append(@, made.node),
                      !.err = made.err,
                      !.master_nodes = (order[i] :> Len(g.nodes) + 1) @@ @],
            disease, order, i + 1)

\* a session of the graph: its nodes and its connections
EmptySession == [nodes |-> <<>>, conns |-> <<>>]

\* graph.clear_session(): the host drops every node and connection
clear_session(session) == EmptySession

\* an updateGraph that draws into the session as it finds it
Kept(session) == session

\* the session updateGraph draws into: graph = widget.graph, cleared first
Cleared(session) == clear_session(session)

\* updateGraph on the session it is given: the session is cleared, then the
\* master nodes and the paths are drawn with a new dist_cache; order is the
\* order in which the loop over the set all_tags yields the tags; err is the
\* exception that left updateGraph, "" when it returned
updateGraph(session, disease, order, host) ==
  LET cleared == Cleared(session)
  IN DrawPaths(
       DrawMasters([nodes |-> cleared.nodes,
                    conns |-> cleared.conns,
                    dist_cache |-> {},
                    master_nodes |-> << >>,
                    host |-> host,
                    err |-> ""],
                   disease, order, 1),
       disease, 1)

\* ------------------------------------------------------------- saveConfig

\* n.name().split(" ")[0]
TagName(node) == node.name[1]

\* int(text) succeeds on a numeral without "."
IsIntText(text) == text.num /\ ~text.dot

IntOf(text) == [t |-> "int", n |-> text.n, s |-> ""]

\* d[k] = v on an insertion-ordered dict: a present key keeps its place
DictSet(d, k, v) ==
  IF \E i \in 1..Len(d) : d[i][1] = k
    THEN [i \in 1..Len(d) |-> IF d[i][1] = k THEN <<k, v>> ELSE d[i]]
    ELSE Append(d, <<k, v>>)

\* the tags dict after the first i nodes: seeded with healthy, then every
\* symptom node writes its own value under its tag name
RECURSIVE TagsDict(_, _)
TagsDict(nodes, i) ==
  IF i = 0 THEN << <<"healthy", PyInt(-1)>> >>
  ELSE IF IsSymptom(nodes[i])
    THEN DictSet(TagsDict(nodes, i - 1), TagName(nodes[i]),
                 IntOf(nodes[i].props.tag))
    ELSE TagsDict(nodes, i - 1)

SymptomTags(nodes) ==
  LET d == TagsDict(nodes, Len(nodes))
  IN [i \in 1..Len(d) |-> [name |-> d[i][1], value |-> d[i][2]]]

\* settings[cat] after the first i nodes: tag names of the nodes of that
\* stage_type, each once, in order of first appearance
RECURSIVE CategoryList(_, _, _)
CategoryList(nodes, cat, i) ==
  IF i = 0 THEN <<>>
  ELSE LET t_list == CategoryList(nodes, cat, i - 1)
       IN IF /\ IsSymptom(nodes[i])
             /\ nodes[i].props.stage_type = Word(cat)
             /\ TagName(nodes[i]) \notin Range(t_list)
            THEN Append(t_list, TagName(nodes[i]))
            ELSE t_list

\* float(v) if "." in str(v) else int(v); on failure the raw text
ParseNumber(text) ==
  IF text.num
    THEN [t |-> IF text.dot THEN "float" ELSE "int", n |-> text.n, s |-> ""]
    ELSE PyStr(text.w)

\* (property, exported key) per distribution type
mapping(dt) ==
  IF dt = "constant" THEN << <<"Val", "value">> >>
  ELSE IF dt = "normal" THEN << <<"Val", "loc">>, <<"scale", "scale">> >>
  ELSE IF dt = "lognormal"
    THEN << <<"s", "s">>, <<"Val", "loc">>, <<"scale", "scale">> >>
  ELSE IF dt = "beta"
    THEN << <<"a", "a">>, <<"b", "b">>, <<"Val", "loc">>,
            <<"scale", "scale">> >>
  ELSE IF dt = "gamma"
    THEN << <<"a", "a">>, <<"Val", "loc">>, <<"scale", "scale">> >>
  ELSE IF dt = "exponweib"
    THEN << <<"a", "a">>, <<"c", "c">>, <<"Val", "loc">>,
            <<"scale", "scale">> >>
  ELSE <<>>

extractDistData(node) ==
  LET dt == node.props.type.w
      m == mapping(dt)
  IN << <<"type", PyStr(dt)>> >> \o
     [i \in 1..Len(m) |-> <<m[i][2], ParseNumber(node.props[m[i][1]])>>]

\* a closing entry that is given no duration of its own
NoTime == <<>>

\* the synthetic completion_time of a closing entry
ZeroTime == << <<"type", PyStr("constant")>>, <<"value", PyFloat(0)>> >>

\* " => ".join(s["symptom_tag"] for s in full)
Description(full) == [i \in 1..Len(full) |-> full[i].symptom_tag]

\* the completion_time every path through one call's entry ends up with: the
\* loop assigns entry["completion_time"] once per time node and every
\* st + [entry] holds the same dict, so the last assignment is what is dumped
EntryTime(nodes, timePorts) ==
  extractDistData(nodes[timePorts[Len(timePorts)]])

\* [err, paths]: err is the RecursionError of a walk that never closes; fuel
\* is the number of stage nodes a path may still take
RECURSIVE findTrajectoriesDfs(_, _, _, _, _)
RECURSIVE DfsNext(_, _, _, _, _, _)
RECURSIVE DfsPorts(_, _, _, _, _, _)

findTrajectoriesDfs(nodes, conns, n, st, fuel) ==
  LET tag_name == TagName(nodes[n])
      ports == IF nodes[n].type_ = TerminalStage THEN <<>>
               ELSE ConnectedOut(conns, n)
  IN IF nodes[n].type_ = TerminalStage \/ Len(ports) = 0
       THEN LET full == Append(st, [symptom_tag |-> tag_name,
                                    completion_time |-> ZeroTime])
            IN [err |-> FALSE,
                paths |-> << [description |-> Description(full),
                              stages |-> full] >>]
     ELSE IF fuel = 0 THEN [err |-> TRUE, paths |-> <<>>]
     ELSE
       LET timePorts ==
             SelectSeq(ports, LAMBDA d : nodes[d].type_ = UniversalTimeNode)
       IN IF Len(timePorts) = 0 THEN [err |-> FALSE, paths |-> <<>>]
          ELSE DfsPorts(nodes, conns, timePorts, 1,
                        Append(st, [symptom_tag |-> tag_name,
                                    completion_time |->
                                      EntryTime(nodes, timePorts)]),
                        fuel - 1)

\* for next_p in time_node.output(0).connected_ports()
DfsNext(nodes, conns, nexts, m, st, fuel) ==
  IF m > Len(nexts) THEN [err |-> FALSE, paths |-> <<>>]
  ELSE LET r == findTrajectoriesDfs(nodes, conns, nexts[m], st, fuel)
       IN IF r.err THEN r
          ELSE LET q == DfsNext(nodes, conns, nexts, m + 1, st, fuel)
               IN [err |-> q.err, paths |-> r.paths \o q.paths]

\* for port in n.output(0).connected_ports(), the time nodes among them
DfsPorts(nodes, conns, timePorts, k, st, fuel) ==
  IF k > Len(timePorts) THEN [err |-> FALSE, paths |-> <<>>]
  ELSE LET r == DfsNext(nodes, conns, ConnectedOut(conns, timePorts[k]), 1,
                        st, fuel)
       IN IF r.err THEN r
          ELSE LET q == DfsPorts(nodes, conns, timePorts, k + 1, st, fuel)
               IN [err |-> q.err, paths |-> r.paths \o q.paths]

\* paths from every DefaultLowestStage node, in node order
RECURSIVE AllPaths(_, _, _)
AllPaths(nodes, conns, i) ==
  IF i > Len(nodes) THEN [err |-> FALSE, paths |-> <<>>]
  ELSE IF nodes[i].type_ # DefaultLowestStage
    THEN AllPaths(nodes, conns, i + 1)
  ELSE LET r == findTrajectoriesDfs(nodes, conns, i, <<>>, Len(nodes))
       IN IF r.err THEN r
          ELSE LET q == AllPaths(nodes, conns, i + 1)
               IN [err |-> q.err, paths |-> r.paths \o q.paths]

\* unique_traj without the seen set's test against earlier paths: the last
\* path of each description
RECURSIVE LastTraj(_, _)
LastTraj(paths, i) ==
  IF i = 0 THEN <<>>
  ELSE LET u == LastTraj(paths, i - 1)
       IN IF \E k \in i + 1..Len(paths) :
               paths[k].description = paths[i].description
            THEN u ELSE Append(u, paths[i])

\* unique_traj: the first path of each description, in discovery order
RECURSIVE UniqueTraj(_, _)
UniqueTraj(paths, i) ==
  IF i = 0 THEN <<>>
  ELSE LET u == UniqueTraj(paths, i - 1)
       IN IF \E k \in 1..Len(u) : u[k].description = paths[i].description
            THEN u ELSE Append(u, paths[i])

\* the disease section saveConfig dumps, or the exception it raises: int()
\* of a tag value that is no integer, or the recursion limit of the walk
saveConfig(nodes, conns) ==
  IF \E i \in 1..Len(nodes) :
       IsSymptom(nodes[i]) /\ ~IsIntText(nodes[i].props.tag)
    THEN [exc |-> "ValueError"]
  ELSE LET r == AllPaths(nodes, conns, 1)
       IN IF r.err THEN [exc |-> "RecursionError"]
          ELSE [exc |-> "",
                settings |-> [cat \in Range(categories) |->
                                CategoryList(nodes, cat, Len(nodes))],
                symptom_tags |-> SymptomTags(nodes),
                trajectories |-> UniqueTraj(r.paths, Len(r.paths))]

\* -------------------------------------------------------- user documents

Tags == {"exposed", "mild", "healthy"}

Constant(v) == << <<"type", PyStr("constant")>>, <<"value", v>> >>

Normal(loc, scale) ==
  << <<"type", PyStr("normal")>>, <<"loc", loc>>, <<"scale", scale>> >>

\* completion_time dicts of user documents: value 5, value 5.0, value 7
\* and a normal distribution
CompTimes ==
  { Constant(PyInt(5)), Constant(PyFloat(5 * Scale)), Constant(PyInt(7)),
    Normal(PyInt(5), PyFloat(Scale)) }

\* symptom_tags lists of user documents
BaseTable ==
  << [name |-> "exposed", value |-> PyInt(1)],
     [name |-> "mild", value |-> PyInt(2)] >>

TagTables ==
  { <<>>, BaseTable,
    << [name |-> "healthy", value |-> PyInt(3)],
       [name |-> "mild", value |-> PyInt(2)],
       [name |-> "mild", value |-> PyInt(4)] >> }

\* settings dicts of user documents
BaseSettings == [fatality_stage |-> <<"mild">>]

SettingsChoices ==
  { <<>>, BaseSettings,
    [recovered_stage |-> <<"healthy", "healthy">>,
     hospitalised_stage |-> <<"exposed">>],
    [fatality_stage |-> <<"mild">>, stay_at_home_stage |-> <<"mild">>] }

Trajectory(ts, cs) ==
  [description |-> ts,
   stages |-> [i \in 1..Len(ts) |->
                 [symptom_tag |-> ts[i],
                  completion_time |-> IF i < Len(ts) THEN cs[i] ELSE <<>>]]]

\* every tag sequence of up to MaxLen stages, each transition taking ct
TagSequences(ct) ==
  UNION {{Trajectory(ts, [i \in 1..l - 1 |-> ct]) : ts \in [1..l -> Tags]} :
         l \in 1..MaxLen}

\* every single transition with every completion_time
Transitions ==
  {Trajectory(<<a, b>>, <<ct>>) : a \in Tags, b \in Tags, ct \in CompTimes}

UpTo(k, S) == UNION {[1..j -> S] : j \in 0..k}

\* trajectories through a tag of two words and the tag that is its first word
SpacedSequences ==
  UNION {{Trajectory(ts, [i \in 1..l - 1 |-> Constant(PyInt(5))]) :
            ts \in [1..l -> {"exposed", "mild", "mild case"}]} :
         l \in 2..MaxLen}

SpacedSettings ==
  [fatality_stage |-> <<"mild">>, hospitalised_stage |-> <<"mild case">>]

Document(trs, tv, sets) ==
  [trajectories |-> trs, symptom_tags |-> tv, settings |-> sets]

\* one transition exposed -> mild that takes the constant time 5, with the
\* tag values 0 and 1
ExampleDocument ==
  Document(<< Trajectory(<<"exposed", "mild">>, <<Constant(PyInt(5))>>) >>,
           << [name |-> "exposed", value |-> PyInt(0)],
              [name |-> "mild", value |-> PyInt(1)] >>,
           <<>>)

\* two trajectories whose middle tags are "mild" and "mild case" (saveConfig
\* and findTrajectoriesDfs render both as mild) and leave after different
\* times, in both orders
HomonymDocuments ==
  {Document(<< Trajectory(<<"exposed", o[1], "healthy">>,
                          <<Constant(PyInt(5)), Constant(PyInt(5))>>),
               Trajectory(<<"exposed", o[2], "healthy">>,
                          <<Constant(PyInt(5)), Constant(PyInt(7))>>) >>,
            BaseTable, BaseSettings) :
     o \in {<<"mild", "mild case">>, <<"mild case", "mild">>}}

\* the user documents: the stage topologies, the completion times between
\* two stages, and the tag tables and settings
Documents ==
  {Document(trs, BaseTable, BaseSettings) :
     trs \in UpTo(MaxTraj, TagSequences(Constant(PyInt(5))))}
  \cup
  {Document(trs, BaseTable, BaseSettings) : trs \in UpTo(MaxTraj, Transitions)}
  \cup
  {Document(<<tr>>, tv, sets) :
     tr \in TagSequences(Constant(PyInt(5))),
     tv \in TagTables, sets \in SettingsChoices}
  \cup
  {Document(<<tr>>, BaseTable, SpacedSettings) : tr \in SpacedSequences}
  \cup
  {ExampleDocument}
  \cup
  HomonymDocuments

\* orders in which a loop over a set of tags yields them
HashOrders ==
  { <<"exposed", "mild", "healthy", None, "mild case">>,
    <<"mild case", None, "healthy", "mild", "exposed">> }

\* ---------------------------------------------------- configuration panel

\* the bound on the sections of the accordion that are followed: the first
\* MaxSections of the six
MaxSections == 3

DISTRIBUTION_TYPES ==
  <<"constant", "normal", "lognormal", "beta", "gamma", "exponweib">>

\* the dict of updateFields: the parameter names of a distribution type,
\* [] for any other text
fields(dist_type) ==
  CASE dist_type = "constant" -> <<"value">>
    [] dist_type = "normal" -> <<"loc", "scale">>
    [] dist_type = "lognormal" -> <<"s", "loc", "scale">>
    [] dist_type = "gamma" -> <<"a", "loc", "scale">>
    [] dist_type = "beta" -> <<"a", "b", "loc", "scale">>
    [] dist_type = "exponweib" -> <<"a", "c", "loc", "scale">>
    [] OTHER -> <<>>

\* QComboBox.setCurrentText of a combo that is not editable: the text becomes
\* current when it is one of the items and is ignored otherwise
CurrentTextAfter(current, text) ==
  IF text \in Range(DISTRIBUTION_TYPES) THEN text ELSE current

\* updateFields without self.inputs = {}: the old inputs stay in the dict
KeptInputs(inputs) == inputs

\* self.inputs = {}
NoInputs(inputs) == <<>>

\* self.inputs[f] = edit for f in fields: a dict keeps a key's first position
RECURSIVE WithInputs(_, _, _)
WithInputs(inputs, fs, i) ==
  IF i > Len(fs) THEN inputs
  ELSE WithInputs(IF fs[i] \in Range(inputs) THEN inputs
                  ELSE Append(inputs, fs[i]),
                  fs, i + 1)

\* updateFields(dist_type) on the editor ed: every row of params_layout is
\* taken out, inputs starts empty and gets one line edit and one row per field
updateFields(ed, dist_type) ==
  [ed EXCEPT !.inputs = WithInputs(NoInputs(ed.inputs), fields(dist_type), 1),
             !.rows = fields(dist_type)]

\* type_combo.setCurrentText(text) once currentTextChanged is connected to
\* updateFields: the slot runs when the current text changes
setCurrentText(ed, text) ==
  LET t == CurrentTextAfter(ed.type, text)
  IN IF t # ed.type THEN updateFields([ed EXCEPT !.type = t], t) ELSE ed

\* DistributionEditor(label_text, default_type): addItems makes the first
\* item current, setCurrentText runs before the signal is connected, and
\* updateFields is called with default_type
DistributionEditor(default_type) ==
  updateFields([type |-> CurrentTextAfter(DISTRIBUTION_TYPES[1], default_type),
                inputs |-> <<>>, rows |-> <<>>],
               default_type)

\* DiseaseConfigWidget.__init__: key, title and default type of each section
sections ==
  << <<"max_infectiousness", "Max Infectiousness", "lognormal">>,
     <<"shape", "Shape", "normal">>,
     <<"rate", "Rate", "normal">>,
     <<"shift", "Shift", "normal">>,
     <<"asymptomatic_infectious_factor", "Asymp. Factor", "constant">>,
     <<"mild_infectious_factor", "Mild Factor", "constant">> >>

\* the sections followed
Sections == SubSeq(sections, 1, MaxSections)

\* CollapsibleBox(title, content): the button is unchecked, the arrow points
\* right and the content has maximum height 0
CollapsibleBox(title) ==
  [title |-> title, checked |-> FALSE, arrow |-> "RightArrow",
   endValue |-> "0"]

\* for k, n, d in sections: accordion.addItem(n, editor)
AccordionWidget(secs) == [i \in 1..Len(secs) |-> CollapsibleBox(secs[i][2])]

\* for k, n, d in sections: trans_editors[k] = DistributionEditor(n, d)
TransEditors(secs) ==
  [k \in {secs[i][1] : i \in 1..Len(secs)} |->
     DistributionEditor(secs[CHOOSE i \in 1..Len(secs) : secs[i][1] = k][3])]

RECURSIVE onPressed(_, _)
RECURSIVE collapse(_, _)
RECURSIVE onBoxToggled(_, _, _, _)

\* CollapsibleBox.onPressed of box i: the arrow and the animation's end value
\* follow the button, and toggled(chk) reaches the accordion's slot
onPressed(bs, i) ==
  LET chk == bs[i].checked
  IN onBoxToggled([bs EXCEPT ![i].arrow = IF chk THEN "DownArrow"
                                          ELSE "RightArrow",
                             ![i].endValue = IF chk THEN "sizeHint" ELSE "0"],
                  i, chk, 1)

\* CollapsibleBox.collapse of box j
collapse(bs, j) ==
  IF bs[j].checked THEN onPressed([bs EXCEPT ![j].checked = FALSE], j)
  ELSE bs

\* an accordion slot that leaves the other boxes alone
onBoxToggledAlone(bs, sender, checked, j) == bs

\* AccordionWidget.onBoxToggled(sender, checked): for b in self.boxes, from
\* box j on
onBoxToggled(bs, sender, checked, j) ==
  IF ~checked \/ j > Len(bs) THEN bs
  ELSE onBoxToggled(IF j # sender THEN collapse(bs, j) ELSE bs,
                    sender, checked, j + 1)

\* a click on the checkable tool button of box i: the button changes its
\* checked state and clicked runs onPressed
Clicked(bs, i) == onPressed([bs EXCEPT ![i].checked = ~@], i)

\* updateConfigPanel, for k, ed in panel.trans_editors.items(): the type of
\* each editor whose key the transmission section holds is set
updateConfigPanel(editors, trans) ==
  [k \in DOMAIN editors |->
     IF k \in DOMAIN trans
       THEN setCurrentText(editors[k],
                           IF trans[k] = "" THEN "constant" ELSE trans[k])
       ELSE editors[k]]

\* getConfigData()["transmission"]: the type of each editor
TransmissionData(editors) == [k \in DOMAIN editors |-> editors[k].type]

\* ------------------------------------------------------------------ state

VARIABLES
  nodes,     \* widget.graph.all_nodes(), in creation order
  conns,     \* the connections <<from, to>> of the graph, in creation order
  userDoc,   \* the disease section of the user's document file
  hashOrder, \* the order in which this process's sets yield the tags
  disease,   \* the disease section updateGraph was last given, NoFile before
  source,    \* the file disease was read from: "user", "export", "" before
  output,    \* what saveConfig dumped from the graph as it is, else NoFile
  exc,       \* the exception that left the last operation, "" if none
  panel,     \* the text of the configuration panel's name_entry
  log,       \* the messages the last loadConfig call logged
  file,      \* the file the last loadConfig call was given: its kind and
             \* the name of its document; NoPath before
  host,      \* how the host behaved during the last updateGraph call
  timers,    \* the callbacks QTimer.singleShot has scheduled and not yet run
  acted,     \* what the callback that ran last acted on: "current",
             \* "discarded" (a node or port of a cleared session), "" before
  boxes,     \* panel.accordion.boxes: each box's button and animation
  trans_editors \* panel.trans_editors: each editor's selected type, the
             \* keys of its inputs and the rows of its params_layout

vars ==
  <<nodes, conns, userDoc, hashOrder, disease, source, output, exc, panel,
    log, file, host, timers, acted, boxes, trans_editors>>

NoFile == [exc |-> "NoFile"]

\* the kind and the name of a file
Path(kind, name) == [kind |-> kind, name |-> name]

NoPath == Path("", PyStr(""))

Init ==
  /\ nodes = <<>>
  /\ conns = <<>>
  /\ userDoc \in Documents
  /\ hashOrder \in HashOrders
  /\ disease = NoFile
  /\ source = ""
  /\ output = NoFile
  /\ exc = ""
  /\ panel = ""
  /\ log = <<>>
  /\ file = NoPath
  /\ host = Compliant
  /\ timers = {}
  /\ acted = ""
  /\ boxes = AccordionWidget(Sections)
  /\ trans_editors = TransEditors(Sections)

\* a scheduled callback: its kind, the nodes its lambda captured (their
\* indices in the session, 0 where it captured none) and whether the
\* session they belong to has been cleared since
Timer(kind, a, b) == [kind |-> kind, a |-> a, b |-> b, stale |-> FALSE]

\* QTimer.singleShot(200, lambda: finalizeVisibility(widget))
Finalize == Timer("finalize", 0, 0)

\* onNodeCreated: a new UniversalTimeNode gets a refresh 10 ms later
onNodeCreated(node, n) ==
  IF node.type_ = UniversalTimeNode THEN {Timer("refresh", n, 0)} ELSE {}

\* onConnectionCreated: a connection between two stage nodes gets the splice
\* at the next turn of the event loop
onConnectionCreated(ns, a, b) ==
  IF IsSymptom(ns[a]) /\ IsSymptom(ns[b]) THEN {Timer("splice", a, b)} ELSE {}

\* the pending callbacks once the session is cleared: what finalizeVisibility
\* holds is the widget; the nodes and ports the others hold are discarded
Outdated(pending) ==
  {IF t.kind = "finalize" THEN t
   ELSE [kind |-> t.kind, a |-> 0, b |-> 0, stale |-> TRUE] : t \in pending}

\* the callbacks an updateGraph call schedules: one refresh per distribution
\* node it created and, when it reaches its last line, finalizeVisibility
Scheduled(g) ==
  UNION {onNodeCreated(g.nodes[n], n) : n \in 1..Len(g.nodes)}
  \cup (IF g.err = "" THEN {Finalize} ELSE {})

\* for tag in all_tags
TagOrder(trajectories) ==
  SelectSeq(hashOrder, LAMBDA tag : tag \in AllTags(trajectories))

\* no transmission section
NoTransmission == <<>>

\* a file that holds a document: the disease section, its name and its
\* transmission section, which gives for each section key it holds the type
\* text of that key's dict, "" standing for a dict without type
PanelFile(name, doc, trans) ==
  [kind |-> "document", name |-> name, disease |-> doc, transmission |-> trans]

\* a file that holds a document without transmission section
DocumentFile(name, doc) == PanelFile(name, doc, NoTransmission)

\* a file of another kind: "unreadable" (open raises), "unparseable"
\* (safe_load raises), "empty" (safe_load returns None), "nodisease" (a
\* mapping without a disease section)
OtherFile(kind) ==
  [kind |-> kind, name |-> PyStr(""), disease |-> NoFile,
   transmission |-> NoTransmission]

\* the exception of open() or yaml.safe_load()
OpenError(f) ==
  IF f.kind = "unreadable" THEN "OSError"
  ELSE IF f.kind = "unparseable" THEN "YAMLError"
  ELSE ""

\* an except clause for the errors of open() alone
CaughtOSError(e) == e = "OSError"

\* except Exception as e
Caught(e) == e # ""

\* loadConfig returns or raises before updateConfigPanel changed anything:
\* the messages it logged and the exception that left it
Aborted(f, messages, e, pending) ==
  /\ log' = messages
  /\ exc' = e
  /\ file' = Path(f.kind, f.name)
  /\ timers' = pending
  /\ UNCHANGED <<nodes, conns, userDoc, hashOrder, disease, source, output,
                 panel, host, acted, boxes, trans_editors>>

\* loadConfig(path, panel, widget) for the file f at path, under the host h,
\* called while the callbacks pending are scheduled
loadConfig(f, from, h, pending) ==
  IF OpenError(f) # ""
    THEN IF Caught(OpenError(f))
           THEN Aborted(f, <<"Loading", "Error opening YAML file">>, "",
                        pending)
           ELSE Aborted(f, <<"Loading">>, OpenError(f), pending)
  ELSE IF f.kind = "empty"
    \* data is None and data.get raises outside of every try
    THEN Aborted(f, <<"Loading">>, "AttributeError", pending)
  ELSE IF f.kind = "nodisease"
    \* if disease: is false and nothing else happens
    THEN Aborted(f, <<"Loading">>, "", pending)
  ELSE IF f.name.t # "str"
    \* name_entry.setText raises, first thing in updateConfigPanel
    THEN Aborted(f, <<"Loading", "Critical error">>, "", pending)
  ELSE
    LET g == updateGraph([nodes |-> nodes, conns |-> conns], f.disease,
                         TagOrder(f.disease.trajectories), h)
    IN /\ panel' = f.name.s
       /\ nodes' = g.nodes
       /\ conns' = g.conns
       /\ log' = <<"Loading", IF g.err = "" THEN "Import complete."
                                            ELSE "Critical error">>
       /\ disease' = f.disease
       /\ source' = from
       /\ output' = NoFile
       /\ exc' = ""
       /\ file' = Path(f.kind, f.name)
       /\ host' = h
       /\ timers' = Outdated(pending) \cup Scheduled(g)
       /\ trans_editors' = updateConfigPanel(trans_editors, f.transmission)
       /\ UNCHANGED <<userDoc, hashOrder, acted, boxes>>

\* File > Import YAML of a file that holds the document doc: the graph is
\* cleared and rebuilt from it; the file just exported carries the name and
\* the distribution types the panel shows, the user's file carries none.
\* The file dialog runs the event loop while the user picks the file, so no
\* callback is pending any more when loadConfig is called
LoadFile(doc, from) ==
  loadConfig(IF from = "export"
               THEN PanelFile(PyStr(panel), doc,
                              TransmissionData(trans_editors))
               ELSE DocumentFile(PyStr(""), doc),
             from, Compliant, {})

LoadUserFile == LoadFile(userDoc, "user")

\* the file just exported is imported again
LoadExportedFile ==
  /\ output # NoFile
  /\ LoadFile(Document(output.trajectories, output.symptom_tags,
                       output.settings), "export")

\* a saveConfig that stores the tag name it has split off as the node's name
StoredTagName(node) == SetName(node, <<TagName(node)>>)

\* a node after saveConfig, findTrajectoriesDfs and extractDistData have
\* used it: they call name(), get_property(), type_, output(0),
\* connected_ports() and node() on it and nothing that sets
Visited(node) == node

\* File > Export YAML: the file is written unless saveConfig raises
SaveFile ==
  LET r == saveConfig(nodes, conns)
  IN /\ exc' = r.exc
     /\ output' = IF r.exc = "" THEN r ELSE output
     /\ nodes' = [n \in DOMAIN nodes |-> Visited(nodes[n])]
     /\ UNCHANGED <<conns, userDoc, hashOrder, disease, source, panel, log,
                    file, host, timers, acted, boxes, trans_editors>>

\* the number of nodes created from the context menu since the session was
\* last cleared
Created ==
  Len(nodes) -
    IF disease = NoFile THEN 0
    ELSE Len(updateGraph(EmptySession, disease,
                         TagOrder(disease.trajectories), Compliant).nodes)

\* context menu > Symptom Nodes > Lowest Stage, Transition Node or Terminal
\* Stage, or Transition Nodes > Time Distribution: the lambda createCmd returns
createCmd(node_class) ==
  /\ Created < MaxManual
  /\ nodes' = Append(nodes, NewNode(node_class))
  /\ output' = NoFile
  /\ exc' = ""
  /\ timers' = timers \cup onNodeCreated(NewNode(node_class), Len(nodes) + 1)
  /\ UNCHANGED <<conns, userDoc, hashOrder, disease, source, panel, log, file,
                 host, acted, boxes, trans_editors>>

Next ==
  \/ LoadUserFile
  \/ LoadExportedFile
  \/ SaveFile

\* import and export of the user documents
Spec == Init /\ [][Next]_vars

\* the documents of a session in which the user also edits by hand
EditDocuments ==
  {Document(trs, BaseTable, BaseSettings) :
     trs \in UpTo(1, TagSequences(Constant(PyInt(5))))}

InitEdit ==
  /\ nodes = <<>>
  /\ conns = <<>>
  /\ userDoc \in EditDocuments
  /\ hashOrder \in HashOrders
  /\ disease = NoFile
  /\ source = ""
  /\ output = NoFile
  /\ exc = ""
  /\ panel = ""
  /\ log = <<>>
  /\ file = NoPath
  /\ host = Compliant
  /\ timers = {}
  /\ acted = ""
  /\ boxes = AccordionWidget(Sections)
  /\ trans_editors = TransEditors(Sections)

NextEdit ==
  \/ LoadUserFile
  \/ LoadExportedFile
  \/ SaveFile
  \/ \E node_class \in {DefaultLowestStage, TransitionNode, TerminalStage,
                        UniversalTimeNode} :
       createCmd(node_class)

\* import, export and nodes added by hand
EditSpec == InitEdit /\ [][NextEdit]_vars

\* trajectories in which an entry has no symptom_tag
MalformedSequences ==
  UNION {{Trajectory(ts, [i \in 1..l - 1 |-> Constant(PyInt(5))]) :
            ts \in {q \in [1..l -> {"healthy", None}] : None \in Range(q)}} :
         l \in 1..MaxLen - 1}

\* the documents of a session in which imports fail: the example, a tag with
\* a category that occurs twice in a trajectory, and the malformed ones
ImportDocuments ==
  {ExampleDocument,
   Document(<< Trajectory(<<"mild", "mild">>, <<Constant(PyInt(5))>>) >>,
            BaseTable, BaseSettings)}
  \cup
  {Document(<<tr>>, BaseTable, BaseSettings) : tr \in MalformedSequences}

\* the files the user picks: the documents, the example also under another
\* name and under a name that is a number, and the files that hold no
\* document
Files ==
  {DocumentFile(PyStr("covid"), doc) : doc \in ImportDocuments}
  \cup
  {DocumentFile(PyStr("flu"), ExampleDocument),
   DocumentFile(PyInt(5), ExampleDocument)}
  \cup
  {OtherFile(kind) :
     kind \in {"unreadable", "unparseable", "empty", "nodisease"}}

\* the property assignments of updateGraph and createTimeNode, by the kind
\* of node and the property
Assignments ==
  {<<"master", "stage_type">>, <<"master", "tag">>,
   <<"copy", "stage_type">>, <<"copy", "tag">>,
   <<"time", "type">>, <<"time", "param">>}

\* the hosts: one that rejects one kind of assignment, one that rejects the
\* name None, one that rejects nothing
Hosts ==
  {[fault |-> a, strict |-> FALSE] : a \in Assignments}
  \cup
  {[fault |-> <<>>, strict |-> b] : b \in BOOLEAN}

InitImport ==
  /\ nodes = <<>>
  /\ conns = <<>>
  /\ userDoc = ExampleDocument
  /\ hashOrder \in HashOrders
  /\ disease = NoFile
  /\ source = ""
  /\ output = NoFile
  /\ exc = ""
  /\ panel = ""
  /\ log = <<>>
  /\ file = NoPath
  /\ host = Compliant
  /\ timers = {}
  /\ acted = ""
  /\ boxes = AccordionWidget(Sections)
  /\ trans_editors = TransEditors(Sections)

\* File > Import YAML of any of the files, under any behaviour of the host
ImportFile ==
  \E f \in Files, h \in Hosts : loadConfig(f, "user", h, {})

NextImport == ImportFile

\* imports of files that fail to open, to parse or to build
ImportSpec == InitImport /\ [][NextImport]_vars

\* the ports of the node classes: add_output, add_input
HasOutput(node) ==
  node.type_ \in {DefaultLowestStage, TransitionNode, UniversalTimeNode}

HasInput(node) ==
  node.type_ \in {TransitionNode, TerminalStage, UniversalTimeNode}

\* the documents of a session with pending callbacks
TimerDocuments ==
  {ExampleDocument,
   Document(<< Trajectory(<<"healthy">>, <<>>) >>, <<>>, <<>>)}

InitTimer ==
  /\ nodes = <<>>
  /\ conns = <<>>
  /\ userDoc = ExampleDocument
  /\ hashOrder = <<"exposed", "mild", "healthy", None, "mild case">>
  /\ disease = NoFile
  /\ source = ""
  /\ output = NoFile
  /\ exc = ""
  /\ panel = ""
  /\ log = <<>>
  /\ file = NoPath
  /\ host = Compliant
  /\ timers = {}
  /\ acted = ""
  /\ boxes = AccordionWidget(Sections)
  /\ trans_editors = TransEditors(Sections)

\* the session has room for the node of every pending splice and one more
Room ==
  Len(nodes) + Cardinality({t \in timers : t.kind = "splice"}) < MaxNodes

\* loadConfig called while callbacks are pending
ImportDocument ==
  \E doc \in TimerDocuments :
    loadConfig(DocumentFile(PyStr("covid"), doc), "user", Compliant, timers)

CreateNode ==
  /\ Room
  /\ \E node_class \in {DefaultLowestStage, TransitionNode, TerminalStage,
                         UniversalTimeNode} :
       createCmd(node_class)

\* the user drags a connection from the output of stage node a to the input
\* of stage node b: the host connects the ports and emits port_connected
Connect(a, b) ==
  /\ Room
  /\ a # b
  /\ IsSymptom(nodes[a]) /\ HasOutput(nodes[a])
  /\ IsSymptom(nodes[b]) /\ HasInput(nodes[b])
  /\ <<a, b>> \notin Range(conns)
  /\ conns' = Append(conns, <<a, b>>)
  /\ timers' = timers \cup onConnectionCreated(nodes, a, b)
  /\ output' = NoFile
  /\ exc' = ""
  /\ UNCHANGED <<nodes, userDoc, hashOrder, disease, source, panel, log, file,
                 host, acted, boxes, trans_editors>>

\* an insertTimeNode that leaves the ports connected
StillConnected(cs, a, b) == cs

\* source_port.disconnect_from(target_port)
Disconnected(cs, a, b) == SelectSeq(cs, LAMBDA c : c # <<a, b>>)

\* insertTimeNode(source_port, target_port) on ports of the session: the
\* connection is replaced by source -> new distribution node -> target; both
\* new connections and the new node emit their signals
insertTimeNode(t) ==
  LET tn == Len(nodes) + 1
      ns == Append(nodes, NewNode(UniversalTimeNode))
  IN /\ nodes' = ns
     /\ conns' = Disconnected(conns, t.a, t.b) \o << <<t.a, tn>>, <<tn, t.b>> >>
     /\ timers' = (timers \ {t})
                    \cup onNodeCreated(ns[tn], tn)
                    \cup onConnectionCreated(ns, t.a, tn)
                    \cup onConnectionCreated(ns, tn, t.b)
     /\ acted' = "current"

\* insertTimeNode on ports of a cleared session: the host either raises when
\* the discarded ports are disconnected, or goes on, and then create_node
\* puts the new node into the session of now
insertTimeNodeDiscarded(t) ==
  /\ \E raises \in BOOLEAN :
       IF raises
         THEN /\ nodes' = nodes
              /\ timers' = timers \ {t}
         ELSE /\ nodes' = Append(nodes, NewNode(UniversalTimeNode))
              /\ timers' = (timers \ {t})
                   \cup onNodeCreated(NewNode(UniversalTimeNode),
                                      Len(nodes) + 1)
  /\ conns' = conns
  /\ acted' = "discarded"

\* the event loop runs the splice that onConnectionCreated scheduled
FireSplice(t) ==
  /\ t \in timers
  /\ t.kind = "splice"
  /\ IF t.stale THEN insertTimeNodeDiscarded(t) ELSE insertTimeNode(t)
  /\ output' = NoFile
  /\ UNCHANGED <<userDoc, hashOrder, disease, source, exc, panel, log, file,
                 host, boxes, trans_editors>>

\* the event loop runs the refresh that onNodeCreated scheduled:
\* updateNodeVisibility(node) on the node the lambda captured, whether or
\* not the graph still holds it
FireRefresh(t) ==
  /\ t \in timers
  /\ t.kind = "refresh"
  /\ timers' = timers \ {t}
  /\ acted' = IF t.stale THEN "discarded" ELSE "current"
  /\ UNCHANGED <<nodes, conns, userDoc, hashOrder, disease, source, output,
                 exc, panel, log, file, host, boxes, trans_editors>>

\* the event loop runs finalizeVisibility(widget): updateNodeVisibility on
\* every UniversalTimeNode of widget.graph.all_nodes()
FireFinalize(t) ==
  /\ t \in timers
  /\ t.kind = "finalize"
  /\ timers' = timers \ {t}
  /\ acted' = "current"
  /\ UNCHANGED <<nodes, conns, userDoc, hashOrder, disease, source, output,
                 exc, panel, log, file, host, boxes, trans_editors>>

\* every callback that can be scheduled in a session of MaxNodes nodes
Timers ==
  {Finalize}
  \cup {Timer("refresh", n, 0) : n \in 1..MaxNodes}
  \cup {Timer("splice", a, b) : a \in 1..MaxNodes, b \in 1..MaxNodes}
  \cup Outdated({Timer("refresh", 1, 0), Timer("splice", 1, 2)})

Fire(t) == FireSplice(t) \/ FireRefresh(t) \/ FireFinalize(t)

NextTimer ==
  \/ ImportDocument
  \/ CreateNode
  \/ \E a \in 1..Len(nodes), b \in 1..Len(nodes) : Connect(a, b)
  \/ \E t \in Timers : Fire(t)

\* imports, nodes and connections made by hand, and the callbacks, in any
\* order; the event loop runs every callback whose time has come
TimerSpec ==
  InitTimer /\ [][NextTimer]_vars /\ \A t \in Timers : WF_vars(Fire(t))

\* ----------------------------------------------- the configuration panel

\* type texts of the transmission sections of the files imported: a listed
\* type, a text that is no item of the combo, and "" for a dict without type
TypeTexts == {"gamma", "weibull", ""}

\* the transmission sections of the files imported while the panel is used:
\* any of the section keys, all with the same type text
Transmissions ==
  {[k \in K |-> t] : K \in SUBSET DOMAIN trans_editors, t \in TypeTexts}

InitPanel ==
  /\ nodes = <<>>
  /\ conns = <<>>
  /\ userDoc = ExampleDocument
  /\ hashOrder = CHOOSE o \in HashOrders : o[1] = "exposed"
  /\ disease = NoFile
  /\ source = ""
  /\ output = NoFile
  /\ exc = ""
  /\ panel = ""
  /\ log = <<>>
  /\ file = NoPath
  /\ host = Compliant
  /\ timers = {}
  /\ acted = ""
  /\ boxes = AccordionWidget(Sections)
  /\ trans_editors = TransEditors(Sections)

\* the user clicks the toggle button of box i
ClickBox(i) ==
  /\ boxes' = Clicked(boxes, i)
  /\ UNCHANGED <<nodes, conns, userDoc, hashOrder, disease, source, output,
                 exc, panel, log, file, host, timers, acted, trans_editors>>

\* the user picks the item t in the type combo of the editor of section k
SelectType(k, t) ==
  /\ trans_editors' = [trans_editors EXCEPT ![k] = setCurrentText(@, t)]
  /\ UNCHANGED <<nodes, conns, userDoc, hashOrder, disease, source, output,
                 exc, panel, log, file, host, timers, acted, boxes>>

\* File > Import YAML of the user's document with a transmission section
ImportTransmission(trans) ==
  loadConfig(PanelFile(PyStr(""), userDoc, trans), "user", Compliant, {})

NextPanel ==
  \/ \E i \in 1..Len(boxes) : ClickBox(i)
  \/ \E k \in DOMAIN trans_editors, t \in Range(DISTRIBUTION_TYPES) :
       SelectType(k, t)
  \/ \E trans \in Transmissions : ImportTransmission(trans)

\* the panel in use: clicks on the accordion, type selections and imports
PanelSpec == InitPanel /\ [][NextPanel]_vars

\* ------------------------------------------------------------- the claims

\* the description strings of a document's trajectories
Descriptions(doc) ==
  {doc.trajectories[i].description : i \in 1..Len(doc.trajectories)}

\* the (name, value) pairs of a document's symptom_tags
TagValues(doc) ==
  {<<doc.symptom_tags[i].name, doc.symptom_tags[i].value>> :
     i \in 1..Len(doc.symptom_tags)}

\* the (category, name) pairs of a document's settings
TagCategories(doc) ==
  {<<categories[c], name>> :
     c \in 1..Len(categories),
     name \in UNION {Range(CatList(doc.settings, categories[k])) :
                       k \in 1..Len(categories)}}
  \cap
  UNION {{<<categories[c], name>> :
            name \in Range(CatList(doc.settings, categories[c]))} :
         c \in 1..Len(categories)}

\* the graph was built from an exported document D and has been exported
\* again as output
ReExported == source = "export" /\ output # NoFile

\* C1: round trip: a document D that saveConfig extracted, rebuilt with
\* updateGraph and extracted again, gives the same set of descriptions, and
\* every tag of D the same value and the same categories
RoundTripIdempotent ==
  ReExported =>
    /\ Descriptions(output) = Descriptions(disease)
    /\ TagValues(disease) \subseteq TagValues(output)
    /\ TagCategories(disease) = TagCategories(output)

\* the stages k.. of a trajectory lie on a walk of the graph that starts at
\* stage node n: every stage has the tag of its node and every non-final
\* stage the parameters of the distribution node the walk leaves it through
RECURSIVE OnPath(_, _, _)
OnPath(n, stages, k) ==
  /\ TagName(nodes[n]) = stages[k].symptom_tag
  /\ \/ k = Len(stages)
     \/ \E t \in Range(ConnectedOut(conns, n)) :
          /\ nodes[t].type_ = UniversalTimeNode
          /\ stages[k].completion_time = extractDistData(nodes[t])
          /\ \E m \in Range(ConnectedOut(conns, t)) : OnPath(m, stages, k + 1)

\* C2: completion-time fidelity: every trajectory saveConfig recorded is a
\* walk of the graph from an entry node on which each non-final stage carries
\* the parameters of the distribution node that the walk itself goes through
CompletionTimeFidelity ==
  output # NoFile =>
    \A i \in 1..Len(output.trajectories) :
      \E n \in 1..Len(nodes) :
        /\ nodes[n].type_ = DefaultLowestStage
        /\ OnPath(n, output.trajectories[i].stages, 1)

\* the tag sequences of a document's trajectories
TagSequencesOf(doc) ==
  {[k \in 1..Len(doc.trajectories[i].stages) |->
      doc.trajectories[i].stages[k].symptom_tag] :
     i \in 1..Len(doc.trajectories)}

\* no two trajectories of the document have the same tag sequence
DistinctSequences(doc) ==
  Cardinality(TagSequencesOf(doc)) = Len(doc.trajectories)

\* the graph was built from the user's document and has been exported
Exported == source = "user" /\ output # NoFile

\* C3: import then export is lossless: for a document with pairwise distinct
\* tag sequences the descriptions saveConfig extracts from the graph that
\* updateGraph built are exactly the document's tag sequences
ImportExportLossless ==
  (Exported /\ DistinctSequences(disease)) =>
    Descriptions(output) = TagSequencesOf(disease)

\* the rendered names of the stage nodes a trajectory goes through: the tag
\* at its first occurrence, "tag k" at its k-th
StageNames(st) ==
  [i \in 1..Len(st) |->
     LET tag == st[i].symptom_tag
         k == Cardinality({h \in 1..i : st[h].symptom_tag = tag})
     IN IF k = 1 THEN Words(tag) ELSE Append(Words(tag), ToString(k))]

\* the transitions a document asks for: (source name, target name,
\* completion_time)
Requested(doc) ==
  UNION {{<<StageNames(doc.trajectories[j].stages)[i],
            StageNames(doc.trajectories[j].stages)[i + 1],
            doc.trajectories[j].stages[i].completion_time>> :
            i \in 1..Len(doc.trajectories[j].stages) - 1} :
         j \in 1..Len(doc.trajectories)}

RequestedFor(doc, a, b) ==
  {r[3] : r \in {q \in Requested(doc) : q[1] = a /\ q[2] = b}}

\* the distribution nodes between a stage node named a and one named b
Between(a, b) ==
  {t \in 1..Len(nodes) :
     /\ nodes[t].type_ = UniversalTimeNode
     /\ \E x \in 1..Len(nodes), y \in 1..Len(nodes) :
          /\ nodes[x].name = a /\ nodes[y].name = b
          /\ <<x, t>> \in Range(conns) /\ <<t, y>> \in Range(conns)}

\* the distribution node holds the parameters of the completion_time
Carries(t, comp) == Range(extractDistData(nodes[t])) = Range(comp)

IsNumber(v) == v.t \in {"int", "float"}

Abs(x) == IF x < 0 THEN -x ELSE x

\* 1e-7 in units of 1/Scale
Tolerance == Scale \div 10 ^ 7

\* some parameter differs by more than 1e-7, or as a non-numeric string
Differs(c1, c2) ==
  \/ {c1[i][1] : i \in 1..Len(c1)} # {c2[i][1] : i \in 1..Len(c2)}
  \/ \E i \in 1..Len(c1), k \in 1..Len(c2) :
       /\ c1[i][1] = c2[k][1]
       /\ IF IsNumber(c1[i][2]) /\ IsNumber(c2[k][2])
            THEN Abs(c1[i][2].n - c2[k][2].n) > Tolerance
            ELSE c1[i][2] # c2[k][2]

\* the session holds the graph built from a document
Built == disease # NoFile

\* C4: distribution dedup across trajectories: every requested (source,
\* target, completion_time) has exactly one distribution node between the two
\* stage nodes however many trajectories ask for it, and two requests for the
\* same pair whose parameters differ by more than 1e-7 or as strings have
\* one node each
DistributionDedup ==
  Built =>
    /\ \A r \in Requested(disease) :
         Cardinality({t \in Between(r[1], r[2]) : Carries(t, r[3])}) = 1
    /\ \A r \in Requested(disease) :
         LET asked == RequestedFor(disease, r[1], r[2])
         IN (\A c1 \in asked, c2 \in asked : c1 # c2 => Differs(c1, c2))
              => Cardinality(Between(r[1], r[2])) = Cardinality(asked)

\* two trajectories ask for the same transition and one node serves both
SharedTransition ==
  /\ Built /\ source = "user"
  /\ Len(disease.trajectories) = 2
  /\ \E r \in Requested([trajectories |-> <<disease.trajectories[1]>>]) :
       /\ r \in Requested([trajectories |-> <<disease.trajectories[2]>>])
       /\ Cardinality(Between(r[1], r[2])) = 1

\* C5: distribution reuse uses tolerant equality: two requests for the same
\* (source name, target name) pair whose completion_times have the same kind
\* and keys and numeric values within 1e-7 of each other (value 5 and value
\* 5.0) are served by one distribution node
TolerantReuse ==
  Built =>
    \A r1 \in Requested(disease), r2 \in Requested(disease) :
      (r1[1] = r2[1] /\ r1[2] = r2[2] /\ ~Differs(r1[3], r2[3])) =>
        Cardinality({t \in Between(r1[1], r1[2]) :
                       Carries(t, r1[3]) \/ Carries(t, r2[3])}) = 1

\* the nodes of the graph that carry the rendered name
Named(name) == {n \in 1..Len(nodes) : nodes[n].name = name}

\* the stages (trajectory j, position i) of a document that are the k-th
\* occurrence of tag in their trajectory
Occurrences(doc, tag, k) ==
  {p \in UNION {{<<j, i>> : i \in 1..Len(doc.trajectories[j].stages)} :
                j \in 1..Len(doc.trajectories)} :
     StageNames(doc.trajectories[p[1]].stages)[p[2]] =
       IF k = 1 THEN Words(tag) ELSE Append(Words(tag), ToString(k))}

IsLast(doc, p) == p[2] = Len(doc.trajectories[p[1]].stages)

\* C6: re-entrant tag numbering: the first occurrence of a tag in a
\* trajectory uses the tag's one master node; every k-th occurrence (k >= 2)
\* has a node of its own named "tag k" with the tag value and category of the
\* master node, a TransitionNode when the occurrence is not the last stage of
\* its trajectory and a TerminalStage when it is, never an entry node
ReentrantNumbering ==
  Built =>
    \A tag \in AllTags(disease.trajectories) :
      /\ Cardinality(Named(Words(tag))) = 1
      /\ \A k \in 2..MaxLen + 1 :
           LET copies == Named(Append(Words(tag), ToString(k)))
               occ == Occurrences(disease, tag, k)
           IN /\ Cardinality({n \in copies :
                                nodes[n].type_ = TerminalStage})
                   = Cardinality({p \in occ : IsLast(disease, p)})
              /\ Cardinality({n \in copies :
                                nodes[n].type_ = TransitionNode})
                   = Cardinality({p \in occ : ~IsLast(disease, p)})
              /\ \A n \in copies :
                   /\ nodes[n].type_ \in {TerminalStage, TransitionNode}
                   /\ \A m \in Named(Words(tag)) :
                        nodes[n].props = nodes[m].props

\* mild, of value 2 and category fatality_stage, three times in a trajectory:
\* the master, an interior copy "mild 2" and a terminal copy "mild 3"
NumberedCopies ==
  /\ Built /\ source = "user"
  /\ \E m \in Named(<<"mild">>) :
       /\ nodes[m].props.tag = Str(PyInt(2))
       /\ nodes[m].props.stage_type = Word("fatality_stage")
  /\ \E n \in Named(<<"mild", "2">>) :
       /\ nodes[n].type_ = TransitionNode
       /\ nodes[n].props.tag = Str(PyInt(2))
       /\ nodes[n].props.stage_type = Word("fatality_stage")
  /\ \E n \in Named(<<"mild", "3">>) :
       /\ nodes[n].type_ = TerminalStage
       /\ nodes[n].props.tag = Str(PyInt(2))

\* C7: stage-node names are unique: in the graph updateGraph builds no two
\* stage nodes carry the same rendered name
UniqueStageNames ==
  Built =>
    \A n \in 1..Len(nodes), m \in 1..Len(nodes) :
      (n # m /\ IsSymptom(nodes[n]) /\ IsSymptom(nodes[m])) =>
        nodes[n].name # nodes[m].name

\* the last stage of a recorded trajectory
LastStage(tr) == tr.stages[Len(tr.stages)]

\* C8: terminal synthesis: every trajectory saveConfig recorded ends with an
\* entry whose completion_time is exactly {type: constant, value: 0.0}
TerminalSynthesis ==
  output # NoFile =>
    \A i \in 1..Len(output.trajectories) :
      LastStage(output.trajectories[i]).completion_time =
        << <<"type", PyStr("constant")>>, <<"value", PyFloat(0)>> >>

\* the export holds a path closed by a TerminalStage that a distribution node
\* leads into, and a path closed by an entry node without outgoing connection
BothClosings ==
  /\ output # NoFile
  /\ \E n \in 1..Len(nodes) :
       /\ nodes[n].type_ = TerminalStage
       /\ Len(ConnectedIn(conns, n)) > 0
       /\ \E i \in 1..Len(output.trajectories) :
            /\ Len(output.trajectories[i].stages) > 1
            /\ LastStage(output.trajectories[i]).symptom_tag
                 = TagName(nodes[n])
  /\ \E n \in 1..Len(nodes) :
       /\ nodes[n].type_ = DefaultLowestStage
       /\ Len(ConnectedOut(conns, n)) = 0
       /\ \E i \in 1..Len(output.trajectories) :
            output.trajectories[i].description = <<TagName(nodes[n])>>

\* the entries of the exported symptom_tags that are named healthy
HealthyEntries ==
  {i \in 1..Len(output.symptom_tags) : output.symptom_tags[i].name = "healthy"}

\* C9: healthy seeding: the symptom_tags saveConfig exports contain exactly
\* one entry named healthy, its value is -1, and for the graph without nodes
\* symptom_tags is exactly [{name: healthy, value: -1}]
HealthySeeding ==
  output # NoFile =>
    /\ Cardinality(HealthyEntries) = 1
    /\ \A i \in HealthyEntries : output.symptom_tags[i].value = PyInt(-1)
    /\ Len(nodes) = 0 =>
         output.symptom_tags = << [name |-> "healthy", value |-> PyInt(-1)] >>

\* the categories whose list in a document's settings names the tag
CategoriesOf(doc, tag) ==
  {categories[c] : c \in {k \in 1..Len(categories) :
                            tag \in Range(CatList(doc.settings, categories[k]))}}

\* how often the exported list of the category names the tag
Listed(cat, tag) ==
  Cardinality({i \in 1..Len(output.settings[cat]) :
                 output.settings[cat][i] = tag})

\* the export names the tag exactly once in cat's list and in no other list
OnlyIn(cat, tag) ==
  \A c \in 1..Len(categories) :
    Listed(categories[c], tag) = IF categories[c] = cat THEN 1 ELSE 0

\* the tags the imported settings name
SettingsTags(doc) ==
  UNION {Range(CatList(doc.settings, categories[c])) :
           c \in 1..Len(categories)}

\* the session holds the graph built from a document, and its export
BuiltAndExported == disease # NoFile /\ output # NoFile

\* C10: category exclusivity: every tag T of the built graph that the
\* imported settings map to exactly one category C is exported exactly once
\* in C's list and in no other list, also when T has numbered copies
CategoryExclusivity ==
  BuiltAndExported =>
    \A tag \in SettingsTags(disease) \cap AllTags(disease.trajectories) :
      \A cat \in CategoriesOf(disease, tag) :
        CategoriesOf(disease, tag) = {cat} => OnlyIn(cat, tag)

\* the stage nodes and the distribution nodes of the graph
StageNodes == {n \in 1..Len(nodes) : IsSymptom(nodes[n])}

TimeNodes == {n \in 1..Len(nodes) : nodes[n].type_ = UniversalTimeNode}

\* C11: end-to-end example: the document [exposed (constant 5) -> mild] with
\* tags exposed = 0 and mild = 1 builds exactly one entry node exposed, one
\* terminal node mild and one distribution node of kind constant and value 5
\* connected between them, and its export has exactly one trajectory, of
\* description "exposed => mild"
EndToEndExample ==
  (Built /\ disease = ExampleDocument) =>
    /\ Cardinality(StageNodes) = 2
    /\ \E e \in StageNodes, m \in StageNodes, t \in TimeNodes :
         /\ nodes[e].type_ = DefaultLowestStage
         /\ nodes[e].name = <<"exposed">>
         /\ nodes[e].props.tag = Str(PyInt(0))
         /\ nodes[m].type_ = TerminalStage
         /\ nodes[m].name = <<"mild">>
         /\ nodes[m].props.tag = Str(PyInt(1))
         /\ TimeNodes = {t}
         /\ nodes[t].props.type = Word("constant")
         /\ nodes[t].props.Val = Str(PyInt(5))
         /\ Range(conns) = {<<e, t>>, <<t, m>>}
         /\ Len(conns) = 2
    /\ output # NoFile =>
         /\ Len(output.trajectories) = 1
         /\ output.trajectories[1].description = <<"exposed", "mild">>

\* the example document has been imported and exported
ExampleExported ==
  /\ disease = ExampleDocument /\ source = "user"
  /\ output # NoFile
  /\ Len(nodes) = 3

\* the edges that arrive at and leave node n
Incoming(n) == {c \in Range(conns) : c[2] = n}

Outgoing(n) == {c \in Range(conns) : c[1] = n}

\* C13: role agrees with topology: after a build an entry node has no
\* incoming and some outgoing edge, a terminal node some incoming and no
\* outgoing edge, an interior node some incoming and some outgoing edge
RoleAgreesWithTopology ==
  Built =>
    \A n \in StageNodes :
      /\ nodes[n].type_ = DefaultLowestStage =>
           Incoming(n) = {} /\ Outgoing(n) # {}
      /\ nodes[n].type_ = TerminalStage =>
           Incoming(n) # {} /\ Outgoing(n) = {}
      /\ nodes[n].type_ = TransitionNode =>
           Incoming(n) # {} /\ Outgoing(n) # {}

\* the nodes that the edges lead to from node n, n included
ReachableFrom(n) ==
  LET RECURSIVE Grow(_)
      Grow(S) ==
        LET T == S \cup {c[2] : c \in {d \in Range(conns) : d[1] \in S}}
        IN  IF T = S THEN S ELSE Grow(T)
  IN  Grow({n})

\* C14: no dangling interior node: after a build every stage node reachable
\* from an entry node is terminal or has an outgoing edge, and a terminal
\* node is reachable from it
NoDanglingInterior ==
  Built =>
    \A e \in StageNodes :
      nodes[e].type_ = DefaultLowestStage =>
        \A n \in ReachableFrom(e) \cap StageNodes :
          /\ nodes[n].type_ = TerminalStage \/ Outgoing(n) # {}
          /\ \E t \in ReachableFrom(n) : nodes[t].type_ = TerminalStage

\* the graph updateGraph builds from a document on an empty graph
BuiltFrom(doc) ==
  updateGraph(EmptySession, doc, TagOrder(doc.trajectories), Compliant)

\* C15: rebuild from scratch: every import leaves exactly the nodes and edges
\* that updateGraph builds from the imported document on an empty graph,
\* whatever earlier imports and manual edits had left in the session
RebuildFromScratch ==
  [][(LoadUserFile \/ LoadExportedFile) =>
       /\ nodes' = BuiltFrom(disease').nodes
       /\ conns' = BuiltFrom(disease').conns]_vars

\* a session that held a node added by hand was exported and the export
\* imported: the export's table names the node and the graph no longer has it
ManualNodeDiscarded ==
  /\ source = "export"
  /\ Len(nodes) > 0
  /\ \E i \in 1..Len(disease.symptom_tags) :
       /\ disease.symptom_tags[i].name = "recovered"
       /\ Named(<<disease.symptom_tags[i].name>>) = {}

\* the last import was of a file that holds a document, and updateGraph ran
ImportedDocument == file.kind = "document" /\ file.name.t = "str"

\* some entry of the document has no symptom_tag
Malformed(doc) == None \in AllTags(doc.trajectories)

\* the rendered names of the stage nodes of the entries that have one
WellFormedNames(doc) ==
  UNION {{StageNames(doc.trajectories[j].stages)[i] :
            i \in {k \in 1..Len(doc.trajectories[j].stages) :
                     doc.trajectories[j].stages[k].symptom_tag # None}} :
         j \in 1..Len(doc.trajectories)}

\* C16: malformed entry fails the import: when an entry of the imported
\* document has no symptom_tag the import logs an error instead of its
\* completion, and the graph holds no stage node made for that entry
MalformedEntryFails ==
  (ImportedDocument /\ Malformed(disease)) =>
    /\ log = <<"Loading", "Critical error">>
    /\ \A n \in StageNodes : nodes[n].name \in WellFormedNames(disease)

\* the node is the reference node, but for properties left at the default of
\* its class
AsBuiltOrDefault(node, ref) ==
  /\ node.type_ = ref.type_
  /\ node.name = ref.name
  /\ \A p \in DOMAIN ref.props :
       node.props[p] \in {ref.props[p], NewNode(ref.type_).props[p]}

\* C17: property-assignment failures are absorbed: whatever assignment the
\* host rejected during the build of a well-formed document, the graph has
\* every node and edge of the document, each node as built or with the
\* default of its class in the rejected property
AssignmentFailuresAbsorbed ==
  (ImportedDocument /\ ~Malformed(disease)) =>
    /\ Len(nodes) = Len(BuiltFrom(disease).nodes)
    /\ conns = BuiltFrom(disease).conns
    /\ \A n \in 1..Len(nodes) :
         AsBuiltOrDefault(nodes[n], BuiltFrom(disease).nodes[n])

\* the messages by which loadConfig reports a failure
ErrorMessages == {"Error opening YAML file", "Critical error"}

\* C18: document errors leave prior state: an import of a file that cannot
\* be opened or cannot be parsed logs the error, returns, and changes neither
\* the configuration panel nor the graph
DocumentErrorsLeaveState ==
  [][file'.kind \in {"unreadable", "unparseable"} =>
       /\ log' = <<"Loading", "Error opening YAML file">>
       /\ exc' = ""
       /\ UNCHANGED <<nodes, conns, panel>>]_vars

\* a file that does not parse was picked while the panel and the graph showed
\* an imported document, and they still show it
UnparseableAfterImport ==
  /\ file.kind = "unparseable"
  /\ log = <<"Loading", "Error opening YAML file">>
  /\ panel = "covid"
  /\ Len(nodes) > 0
  /\ disease # NoFile

\* C19: every import failure is reported and none escapes: after every call
\* loadConfig has returned without an exception, and its log holds either the
\* completion of the import or an error message
EveryFailureReported ==
  file # NoPath =>
    /\ exc = ""
    /\ \/ log = <<"Loading", "Import complete.">>
       \/ Range(log) \cap ErrorMessages # {}

\* the connection a -> b exists and joins two stage nodes directly
Direct(a, b) ==
  /\ <<a, b>> \in Range(conns)
  /\ IsSymptom(nodes[a]) /\ IsSymptom(nodes[b])

\* the splices that are scheduled for connections of the session
PendingSplices == {t \in timers : t.kind = "splice" /\ ~t.stale}

\* every direct connection between two stage nodes has its splice pending,
\* and every pending splice is for such a connection: none is left by
\* updateGraph, none by a splice, and a splice schedules no further one
DirectEdgesAwaitSplice ==
  /\ \A a \in 1..Len(nodes), b \in 1..Len(nodes) :
       Direct(a, b) => Timer("splice", a, b) \in timers
  /\ \A t \in PendingSplices :
       /\ t.a \in 1..Len(nodes) /\ t.b \in 1..Len(nodes)
       /\ Direct(t.a, t.b)

\* the connection a -> b is one of the session
Connected(a, b) ==
  a \in 1..Len(nodes) /\ b \in 1..Len(nodes) /\ Direct(a, b)

\* the step clears the session and rebuilds it
Rebuilds ==
  /\ disease' # NoFile
  /\ nodes' = BuiltFrom(disease').nodes
  /\ conns' = BuiltFrom(disease').conns

\* the step replaces the connection a -> b by a -> new distribution node -> b
Splices(a, b) ==
  /\ nodes' = Append(nodes, NewNode(UniversalTimeNode))
  /\ <<a, b>> \notin Range(conns')
  /\ <<a, Len(nodes')>> \in Range(conns')
  /\ <<Len(nodes'), b>> \in Range(conns')
  /\ Len(conns') = Len(conns) + 1

DeferredRefreshSafe == acted # "discarded"

\* --------------------------------------------------------------- C21

\* the nodes that one or more edges lead to from node n
Successors(n) ==
  UNION {ReachableFrom(c[2]) : c \in {d \in Range(conns) : d[1] = n}}

\* the walk of findTrajectoriesDfs started at entry node e returns
Terminates(e) ==
  ~findTrajectoriesDfs(nodes, conns, e, <<>>, Len(nodes)).err

\* C21: cycle avoidance and termination of extraction: the graph updateGraph
\* builds from any document has no directed cycle, and findTrajectoriesDfs
\* started from every entry node of a built graph terminates
CycleAvoidance ==
  Built =>
    /\ \A n \in 1..Len(nodes) : n \notin Successors(n)
    /\ \A e \in StageNodes :
         nodes[e].type_ = DefaultLowestStage => Terminates(e)

\* --------------------------------------------------------------- C22

\* the paths findTrajectoriesDfs discovers from all entry nodes, in order
Discovered == AllPaths(nodes, conns, 1).paths

\* the positions of the paths that are the first of their description
FirstOfDescription ==
  {i \in 1..Len(Discovered) :
     \A j \in 1..i - 1 :
       Discovered[j].description # Discovered[i].description}

\* C22: global deduplication by description: the exported trajectory list
\* has no two trajectories with the same description; it keeps, for each
\* distinct description, the first path discovered across all entry nodes,
\* and the kept trajectories appear in discovery order
GlobalDeduplication ==
  output # NoFile =>
    LET kept == output.trajectories
    IN /\ \A i, j \in 1..Len(kept) :
            kept[i].description = kept[j].description => i = j
       /\ Len(kept) = Cardinality(FirstOfDescription)
       /\ \A i \in FirstOfDescription :
            kept[Cardinality({j \in FirstOfDescription : j < i}) + 1]
              = Discovered[i]

\* an export dropped a path whose description had been seen before and whose
\* stages differ from those of the path kept
LaterHomonymDropped ==
  /\ output # NoFile
  /\ \E i, j \in 1..Len(Discovered) :
       /\ i < j
       /\ Discovered[i].description = Discovered[j].description
       /\ Discovered[i].stages # Discovered[j].stages
       /\ i \in FirstOfDescription

\* --------------------------------------------------------------- C23

\* the boxes whose button is checked
Expanded == {i \in 1..Len(boxes) : boxes[i].checked}

\* C23: accordion mutual exclusion: after any sequence of clicks at most one
\* box of the accordion is expanded; expanding a box collapses every other
\* box that was expanded, and collapsing a box changes no other box
AccordionExclusive ==
  /\ [](Cardinality(Expanded) <= 1)
  /\ [][\A i \in 1..Len(boxes) :
          /\ (~boxes[i].checked /\ boxes'[i].checked) =>
               \A j \in 1..Len(boxes) : j # i => ~boxes'[j].checked
          /\ (boxes[i].checked /\ Expanded' = {}) =>
               \A j \in 1..Len(boxes) : j # i => boxes'[j] = boxes[j]]_vars

\* a click has expanded one box, arrow and animation included, and every
\* other box is collapsed
OtherBoxCollapsed ==
  \E i \in 1..Len(boxes) : \A j \in 1..Len(boxes) \ {i} :
    /\ boxes[i].checked /\ boxes[i].arrow = "DownArrow"
    /\ boxes[i].endValue = "sizeHint"
    /\ ~boxes[j].checked /\ boxes[j].arrow = "RightArrow"
    /\ boxes[j].endValue = "0"

\* --------------------------------------------------------------- C24

\* the editor's inputs are those of the type t: the keys of the dict and the
\* rows of the form, without a key twice
ShowsFieldsOf(ed, t) ==
  /\ Range(ed.inputs) = Range(fields(t))
  /\ Len(ed.inputs) = Len(fields(t))
  /\ ed.rows = fields(t)

\* C24: DistributionEditor fields follow the selected kind: after
\* construction and after any sequence of type selections the key set of
\* the editor's inputs is exactly the parameter list of the selected type
\* (constant: value; normal: loc, scale; lognormal: s, loc, scale; gamma: a,
\* loc, scale; beta: a, b, loc, scale; exponweib: a, c, loc, scale), and no
\* field of a previously selected type remains
FieldsFollowType ==
  /\ fields("constant") = <<"value">>
  /\ fields("normal") = <<"loc", "scale">>
  /\ fields("lognormal") = <<"s", "loc", "scale">>
  /\ fields("gamma") = <<"a", "loc", "scale">>
  /\ fields("beta") = <<"a", "b", "loc", "scale">>
  /\ fields("exponweib") = <<"a", "c", "loc", "scale">>
  /\ \A t \in Range(DISTRIBUTION_TYPES) :
       LET ed == DistributionEditor(t)
       IN ed.type = t /\ ShowsFieldsOf(ed, t)
  /\ \A k \in DOMAIN trans_editors :
       /\ trans_editors[k].type \in Range(DISTRIBUTION_TYPES)
       /\ ShowsFieldsOf(trans_editors[k], trans_editors[k].type)

\* an editor constructed as lognormal (s, loc, scale) shows the one field of
\* constant after a selection
FieldsReplaced ==
  /\ trans_editors["max_infectiousness"].type = "constant"
  /\ trans_editors["max_infectiousness"].inputs = <<"value">>

\* --------------------------------------------------------------- C25

====
